---- MODULE Spec2Model ----
(***************************************************************************)
(* Model of package awsbastion (src/main.go, lines 143-280: the version    *)
(* with the Pinger interface and the home-directory credentials file).     *)
(*                                                                         *)
(* SessionWithConfig is modelled step by step: each call site of           *)
(* sessionWithConfigWrapper is one action, the recursion at line 265 is an *)
(* explicit stack of frames, errors are the chains of messages that        *)
(* fmt.Errorf builds, and the credentials file is a sequence of JSON       *)
(* tokens that json.Marshal writes and json.Unmarshal parses.              *)
(***************************************************************************)
EXTENDS Integers, Sequences, FiniteSets, TLC

VARIABLES file, stack, ret, result, phase, log, nextKey, nextHid, calls, file0, served,
          prevLog, writer

vars == <<file, stack, ret, result, phase, log, nextKey, nextHid, calls, file0, served, prevLog, writer>>

\* ---------------------------------------------------------------- bounds
\* number of SessionWithConfig calls made one after the other
MaxCalls == 2
\* number of cache operations applied one after the other (CacheSpec)
MaxOps == 3
\* number of distinct role assumptions whose value is stored (CacheSpec)
MaxKey == 2
\* number of loads another process makes while a store is under way (RaceSpec)
MaxReads == 2
\* cap on the depth of the stack of sessionWithConfigWrapper frames
MaxDepth == 3

\* ---------------------------------------------------------------- errors
\* An error is the chain of messages fmt.Errorf("...: %v", err) builds,
\* outermost first; nil is the empty chain.
NoErr == <<>>

Errorf(msg, err) == <<msg>> \o err

\* fmt.Errorf with a %v verb and no operand (line 260): the verb is
\* rendered as %!v(MISSING) and no cause is carried.
ErrorfMissing(msg) == <<msg, "%!v(MISSING)">>

\* ---------------------------------------------------------- credentials
\* credentials.Value: the strings are numbers, 0 is the empty string.
EmptyValue == [AccessKeyID |-> 0, SecretAccessKey |-> 0, SessionToken |-> 0]

\* the value the k-th role assumption yields (three distinct strings)
Value(k) == [AccessKeyID |-> 3 * k - 2, SecretAccessKey |-> 3 * k - 1, SessionToken |-> 3 * k]

NoCreds == [src |-> "nil", val |-> EmptyValue]

NilSession == [hid |-> 0, creds |-> NoCreds]

\* ------------------------------------------------------------------ JSON
Tok(k, v) == [k |-> k, v |-> v]

FieldNames == {"AccessKeyID", "SecretAccessKey", "SessionToken"}

\* json.Marshal leaving the session token out
MarshalNoToken(val) ==
    << Tok("lbrace", 0),
       Tok("AccessKeyID", val.AccessKeyID),
       Tok("SecretAccessKey", val.SecretAccessKey),
       Tok("rbrace", 0) >>

\* json.Marshal(val): one object with the three fields in struct order
Marshal(val) ==
    << Tok("lbrace", 0),
       Tok("AccessKeyID", val.AccessKeyID),
       Tok("SecretAccessKey", val.SecretAccessKey),
       Tok("SessionToken", val.SessionToken),
       Tok("rbrace", 0) >>

MaxOf(S) == CHOOSE m \in S : \A x \in S : x <= m

\* the value of field name in the object b (last occurrence wins, absent
\* fields keep the zero value)
FieldOf(b, name) ==
    LET idx == {i \in 2..(Len(b) - 1) : b[i].k = name}
    IN  IF idx = {} THEN 0 ELSE b[MaxOf(idx)].v

\* json.Unmarshal(f, &val): the bytes must be exactly one object
Unmarshal(b) ==
    IF Len(b) = 0
    THEN [val |-> EmptyValue, err |-> <<"unexpected end of JSON input">>]
    ELSE IF \/ Len(b) < 2
            \/ b[1].k # "lbrace"
            \/ b[Len(b)].k # "rbrace"
            \/ \E i \in 2..(Len(b) - 1) : b[i].k \notin FieldNames
         THEN [val |-> EmptyValue, err |-> <<"invalid character">>]
         ELSE [val |-> [AccessKeyID     |-> FieldOf(b, "AccessKeyID"),
                        SecretAccessKey |-> FieldOf(b, "SecretAccessKey"),
                        SessionToken    |-> FieldOf(b, "SessionToken")],
               err |-> NoErr]

\* ------------------------------------------------------------ the file
Absent == [exists |-> FALSE, data |-> <<>>]

FileOf(b) == [exists |-> TRUE, data |-> b]

\* WriteFile opening the file for append instead of truncating it
WriteFileAppend(f, b, how) ==
    CASE how = "ok"        -> [file |-> FileOf(f.data \o b), err |-> NoErr]
      [] how = "openfail"  -> [file |-> f, err |-> <<"open: permission denied">>]
      [] how = "writefail" -> [file |-> FileOf(f.data), err |-> <<"write: no space left on device">>]

\* ioutil.WriteFile(path, b, 0666): open with O_CREATE|O_TRUNC, write, close.
\* how: "ok", "openfail" (nothing touched), "writefail" (truncated, no data)
WriteFile(f, b, how) ==
    CASE how = "ok"        -> [file |-> FileOf(b), err |-> NoErr]
      [] how = "openfail"  -> [file |-> f, err |-> <<"open: permission denied">>]
      [] how = "writefail" -> [file |-> FileOf(<<>>), err |-> <<"write: no space left on device">>]

\* os.Remove succeeding on a file that is not there
RemoveIdempotent(f, allowed) ==
    IF ~f.exists THEN [file |-> f, err |-> NoErr]
    ELSE IF ~allowed THEN [file |-> f, err |-> <<"remove: permission denied">>]
    ELSE [file |-> Absent, err |-> NoErr]

\* os.Remove reporting success and leaving the file in place
RemoveKeepsFile(f, allowed) ==
    IF ~f.exists THEN [file |-> f, err |-> <<"remove: no such file or directory">>]
    ELSE IF ~allowed THEN [file |-> f, err |-> <<"remove: permission denied">>]
    ELSE [file |-> f, err |-> NoErr]

\* os.Remove(path): fails when the file is absent or the removal is refused
Remove(f, allowed) ==
    IF ~f.exists THEN [file |-> f, err |-> <<"remove: no such file or directory">>]
    ELSE IF ~allowed THEN [file |-> f, err |-> <<"remove: permission denied">>]
    ELSE [file |-> Absent, err |-> NoErr]

\* ioutil.ReadFile(path)
ReadFile(f) ==
    IF f.exists THEN [data |-> f.data, err |-> NoErr]
    ELSE [data |-> <<>>, err |-> <<"open: no such file or directory">>]

\* ------------------------------------------------------------- the cache
\* storeCredentials returning nil without writing the file
storeCredentialsNoWrite(f, val, getOK, how) ==
    IF ~getOK
    THEN [file |-> f, wrote |-> FALSE,
          err |-> Errorf("couldn't retrieve the credentials value", <<"AssumeRole failed">>)]
    ELSE [file |-> f, wrote |-> TRUE, err |-> NoErr]

\* storeCredentials(creds): creds.Get() yields val when getOK (for the
\* stscreds provider this is the AssumeRole call that reads the MFA code
\* from stdin), then the value is marshalled and written.
storeCredentials(f, val, getOK, how) ==
    IF ~getOK
    THEN [file |-> f, wrote |-> FALSE,
          err |-> Errorf("couldn't retrieve the credentials value", <<"AssumeRole failed">>)]
    ELSE LET w == WriteFile(f, Marshal(val), how)
         IN  IF w.err # NoErr
             THEN [file |-> w.file, wrote |-> TRUE,
                   err |-> Errorf("couldn't write the file", w.err)]
             ELSE [file |-> w.file, wrote |-> TRUE, err |-> NoErr]

\* retrieveCredentials rejecting a record without access key or secret key
retrieveCredentialsValidating(f) ==
    LET r == ReadFile(f)
    IN  IF r.err # NoErr
        THEN [creds |-> NoCreds, err |-> Errorf("couldn't read file", r.err)]
        ELSE LET u == Unmarshal(r.data)
             IN  IF u.err # NoErr \/ u.val.AccessKeyID = 0 \/ u.val.SecretAccessKey = 0
                 THEN [creds |-> NoCreds, err |-> Errorf("failed to unmarshal file", u.err)]
                 ELSE [creds |-> [src |-> "static", val |-> u.val], err |-> NoErr]

retrieveCredentials(f) ==
    LET r == ReadFile(f)
    IN  IF r.err # NoErr
        THEN [creds |-> NoCreds, err |-> Errorf("couldn't read file", r.err)]
        ELSE LET u == Unmarshal(r.data)
             IN  IF u.err # NoErr
                 THEN [creds |-> NoCreds, err |-> Errorf("failed to unmarshal file", u.err)]
                 ELSE [creds |-> [src |-> "static", val |-> u.val], err |-> NoErr]

purge(f, allowed) ==
    LET r == Remove(f, allowed)
    IN  IF r.err # NoErr
        THEN [file |-> r.file, err |-> Errorf("couldn't delete file", r.err)]
        ELSE [file |-> r.file, err |-> NoErr]

\* bastionAccountCreds dropping the error of a failed write
bastionAccountCredsIgnoreWrite(f, k, sessOK, getOK, how) ==
    IF ~sessOK
    THEN [file |-> f, creds |-> NoCreds, prompted |-> FALSE, wrote |-> FALSE,
          err |-> Errorf("failed to create new session for bastion account",
                         <<"bastion session error">>)]
    ELSE LET creds == [src |-> "sts", val |-> Value(k)]
             s     == storeCredentials(f, creds.val, getOK, how)
         IN  IF s.err # NoErr /\ ~s.wrote
             THEN [file |-> s.file, creds |-> NoCreds, prompted |-> TRUE, wrote |-> s.wrote,
                   err |-> Errorf("failed to store credentials", s.err)]
             ELSE [file |-> s.file, creds |-> creds, prompted |-> TRUE, wrote |-> s.wrote,
                   err |-> NoErr]

\* ---------------------------------------------------------- the exchanger
\* bastionAccountCreds: sessOK is the outcome of NewSessionWithOptions for
\* the bastion profile, k numbers the role assumption.
bastionAccountCreds(f, k, sessOK, getOK, how) ==
    IF ~sessOK
    THEN [file |-> f, creds |-> NoCreds, prompted |-> FALSE, wrote |-> FALSE,
          err |-> Errorf("failed to create new session for bastion account",
                         <<"bastion session error">>)]
    ELSE LET creds == [src |-> "sts", val |-> Value(k)]
             s     == storeCredentials(f, creds.val, getOK, how)
         IN  IF s.err # NoErr
             THEN [file |-> s.file, creds |-> NoCreds, prompted |-> TRUE, wrote |-> s.wrote,
                   err |-> Errorf("failed to store credentials", s.err)]
             ELSE [file |-> s.file, creds |-> creds, prompted |-> TRUE, wrote |-> s.wrote,
                   err |-> NoErr]

\* ------------------------------------------------------------- the log
\* what one SessionWithConfig call did, in order
Ev(op, ok, hid, creds, why) ==
    [op |-> op, ok |-> ok, hid |-> hid, src |-> creds.src, val |-> creds.val, why |-> why]

\* why a load missed: the file is absent, or its bytes do not parse
MissKind(f) == IF ~f.exists THEN "notfound" ELSE "corrupt"

\* ------------------------------------------- sessionWithConfigWrapper
Frame(rerun) == [rerun |-> rerun, pc |-> "retrieve", creds |-> NoCreds, sess |-> NilSession]

Top == stack[Len(stack)]

SetTop(fr) == [stack EXCEPT ![Len(stack)] = fr]

NoRet == [pending |-> FALSE, sess |-> NilSession, err |-> NoErr]

\* the recursive call given rerun = false
RerunArgFalse == FALSE

\* the value of rerun the recursive call at line 265 is given
RerunArg == TRUE

\* the wrapper going on without a credential after a failed load
AfterRetrieveNoDerive(err) == "newsession"

\* the wrapper deriving a credential whatever the load returned
AfterRetrieveAlwaysDerive(err) == "derive"

\* line 246: a failed load sends the wrapper to bastionAccountCreds
AfterRetrieve(err) == IF err # NoErr THEN "derive" ELSE "newsession"

\* the wrapper going on after a failed derivation
AfterDeriveIgnoreErr(err) == "newsession"

\* lines 248-250: a failed derivation is returned at once
AfterDerive(err) == IF err # NoErr THEN "return" ELSE "newsession"

\* lines 254-256: a failed session construction is returned at once
AfterNewSession(err) == IF err # NoErr THEN "return" ELSE "ping"

\* the wrapper without the rerun check of line 259
AfterPingNoRerunCheck(err, rerun) ==
    IF err = NoErr THEN "return_ok" ELSE "purge"

\* the wrapper taking the retry path when the ping succeeds
AfterPingInverted(err, rerun) ==
    IF err # NoErr THEN "return_ok"
    ELSE IF rerun THEN "return_err"
    ELSE "purge"

\* the wrapper returning the session of the rerun although its ping failed
AfterPingRerunReturnsSession(err, rerun) ==
    IF err = NoErr THEN "return_ok"
    ELSE IF rerun THEN "return_ok"
    ELSE "purge"

\* lines 258-264, 271: what follows the ping
AfterPing(err, rerun) ==
    IF err = NoErr THEN "return_ok"
    ELSE IF rerun THEN "return_err"
    ELSE "purge"

\* the wrapper going on to the rerun after a failed purge
AfterPurgeIgnoreErr(err) == "recurse"

\* lines 262-264: a failed purge is returned at once
AfterPurge(err) == IF err # NoErr THEN "return" ELSE "recurse"

\* a frame returns (sess, err): it is popped, and the value goes to the
\* frame below or, from the outermost frame, to the caller
Return(sess, err) ==
    /\ stack' = SubSeq(stack, 1, Len(stack) - 1)
    /\ IF Len(stack) = 1
       THEN /\ result' = [sess |-> sess, err |-> err]
            /\ phase' = "done"
            /\ ret' = NoRet
       ELSE /\ ret' = [pending |-> TRUE, sess |-> sess, err |-> err]
            /\ UNCHANGED <<result, phase>>

NoResult == [sess |-> NilSession, err |-> NoErr]

\* no storeCredentials of another process is under way
IdleWriter == [pc |-> "idle", val |-> EmptyValue]

\* the states the credentials file may be in when the program starts
InitFiles ==
    { Absent,
      FileOf(<<>>),
      FileOf(<<Tok("junk", 0)>>),
      FileOf(<<Tok("lbrace", 0), Tok("rbrace", 0)>>),
      FileOf(Marshal(Value(1))) }

Init ==
    /\ file \in InitFiles
    /\ stack = <<>>
    /\ ret = NoRet
    /\ result = NoResult
    /\ phase = "idle"
    /\ log = <<>>
    /\ nextKey = 2
    /\ nextHid = 1
    /\ calls = 0
    /\ file0 = file
    /\ served = <<>>
    /\ prevLog = <<>>
    /\ writer = IdleWriter

\* SessionWithConfig (lines 239-241): enter the wrapper with rerun = false
Acquire ==
    /\ phase \in {"idle", "done"}
    /\ calls < MaxCalls
    /\ stack' = <<Frame(FALSE)>>
    /\ phase' = "running"
    /\ calls' = calls + 1
    /\ log' = <<>>
    /\ result' = NoResult
    /\ ret' = NoRet
    /\ file0' = file
    /\ served' = IF phase = "done" THEN Append(served, result.sess.hid) ELSE served
    /\ prevLog' = log
    /\ UNCHANGED <<file, nextKey, nextHid, writer>>

\* line 245
Retrieve ==
    /\ phase = "running" /\ stack # <<>> /\ Top.pc = "retrieve"
    /\ LET r == retrieveCredentials(file)
       IN  /\ log' = Append(log, Ev("load", r.err = NoErr, 0, r.creds,
                                    IF r.err = NoErr THEN "" ELSE MissKind(file)))
           /\ stack' = SetTop([Top EXCEPT !.creds = r.creds, !.pc = AfterRetrieve(r.err)])
    /\ UNCHANGED <<file, ret, result, phase, nextKey, nextHid, calls, file0, served, prevLog, writer>>

\* lines 247-250
Derive ==
    /\ phase = "running" /\ stack # <<>> /\ Top.pc = "derive"
    /\ \E sessOK \in BOOLEAN, getOK \in BOOLEAN, how \in {"ok", "openfail", "writefail"} :
         LET d == bastionAccountCreds(file, nextKey, sessOK, getOK, how)
             c == [src |-> "sts", val |-> Value(nextKey)]
             evs == <<Ev("derive", TRUE, 0, NoCreds, "")>>
                    \o (IF d.prompted THEN <<Ev("prompt", getOK, 0, c, "")>> ELSE <<>>)
                    \o (IF d.wrote THEN <<Ev("store", how = "ok", 0, c, how)>> ELSE <<>>)
                    \o <<Ev("derive_ret", d.err = NoErr, 0, d.creds, "")>>
         IN  /\ file' = d.file
             /\ nextKey' = IF d.prompted /\ getOK THEN nextKey + 1 ELSE nextKey
             /\ log' = log \o evs
             /\ IF AfterDerive(d.err) = "return"
                THEN Return(NilSession, Errorf("couldn't create bastion account credentials", d.err))
                ELSE /\ stack' = SetTop([Top EXCEPT !.creds = d.creds, !.pc = "newsession"])
                     /\ UNCHANGED <<ret, result, phase>>
    /\ UNCHANGED <<nextHid, calls, file0, served, prevLog, writer>>

\* lines 253-256
NewSession ==
    /\ phase = "running" /\ stack # <<>> /\ Top.pc = "newsession"
    /\ \E ok \in BOOLEAN :
         LET err == IF ok THEN NoErr ELSE <<"session error">>
             s   == [hid |-> nextHid, creds |-> Top.creds]
         IN  /\ log' = Append(log, Ev("newsession", ok, IF ok THEN nextHid ELSE 0, Top.creds, ""))
             /\ IF AfterNewSession(err) = "return"
                THEN /\ Return(NilSession, Errorf("couldn't create session", err))
                     /\ UNCHANGED nextHid
                ELSE /\ stack' = SetTop([Top EXCEPT !.sess = s, !.pc = "ping"])
                     /\ nextHid' = nextHid + 1
                     /\ UNCHANGED <<ret, result, phase>>
    /\ UNCHANGED <<file, nextKey, calls, file0, served, prevLog, writer>>

\* lines 258-261 and, when the ping succeeds, line 271
Ping ==
    /\ phase = "running" /\ stack # <<>> /\ Top.pc = "ping"
    /\ \E ok \in BOOLEAN :
         LET err  == IF ok THEN NoErr ELSE <<"ping error">>
             next == AfterPing(err, Top.rerun)
         IN  /\ log' = Append(log, Ev("ping", ok, Top.sess.hid, Top.sess.creds, ""))
             /\ CASE next = "return_ok"  -> Return(Top.sess, NoErr)
                  [] next = "return_err" ->
                       Return(NilSession,
                              ErrorfMissing("failed to ping aws servers with created session"))
                  [] OTHER ->
                       /\ stack' = SetTop([Top EXCEPT !.pc = "purge"])
                       /\ UNCHANGED <<ret, result, phase>>
    /\ UNCHANGED <<file, nextKey, nextHid, calls, file0, served, prevLog, writer>>

\* lines 262-264
Purge ==
    /\ phase = "running" /\ stack # <<>> /\ Top.pc = "purge"
    /\ \E allowed \in BOOLEAN :
         LET p == purge(file, allowed)
         IN  /\ file' = p.file
             /\ log' = Append(log, Ev("purge", p.err = NoErr, 0, NoCreds,
                                      IF p.err = NoErr THEN "" ELSE p.err[2]))
             /\ IF AfterPurge(p.err) = "return"
                THEN Return(NilSession, Errorf("couldn't purge the main session", p.err))
                ELSE /\ stack' = SetTop([Top EXCEPT !.pc = "recurse"])
                     /\ UNCHANGED <<ret, result, phase>>
    /\ UNCHANGED <<nextKey, nextHid, calls, file0, served, prevLog, writer>>

\* line 265: the wrapper calls itself
Recurse ==
    /\ phase = "running" /\ stack # <<>> /\ Top.pc = "recurse"
    /\ Len(stack) < MaxDepth
    /\ stack' = Append(SetTop([Top EXCEPT !.pc = "wait"]), Frame(RerunArg))
    /\ log' = Append(log, Ev("recurse", TRUE, 0, NoCreds, ""))
    /\ UNCHANGED <<file, ret, result, phase, nextKey, nextHid, calls, file0, served, prevLog, writer>>

\* lines 265-271: the recursive call has returned
RecurseReturn ==
    /\ phase = "running" /\ stack # <<>> /\ Top.pc = "wait" /\ ret.pending
    /\ IF ret.err # NoErr
       THEN Return(NilSession, <<"couldn't create main account session after first ping failed">>)
       ELSE Return(ret.sess, NoErr)
    /\ UNCHANGED <<file, log, nextKey, nextHid, calls, file0, served, prevLog, writer>>

Next ==
    \/ Acquire
    \/ Retrieve
    \/ Derive
    \/ NewSession
    \/ Ping
    \/ Purge
    \/ Recurse
    \/ RecurseReturn

Spec == Init /\ [][Next]_vars

\* the steps of a call in progress: every call the wrapper makes is a
\* synchronous, blocking call, so a call in progress keeps stepping (given
\* that the MFA prompt, the ping and the file operations return)
Step ==
    \/ Retrieve
    \/ Derive
    \/ NewSession
    \/ Ping
    \/ Purge
    \/ Recurse
    \/ RecurseReturn

FairSpec == Spec /\ WF_vars(Step)

\* ------------------------------------------------------- reading the log
Idx(op) == {i \in DOMAIN log : log[i].op = op}

Count(op) == Cardinality(Idx(op))

MinOf(S) == CHOOSE m \in S : \A x \in S : m <= x

\* the first Probe check of the call, when there has been one
FirstPing == log[MinOf(Idx("ping"))]

LastPing == log[MaxOf(Idx("ping"))]

\* the call started with a cache hit / a cache miss
LoadHit == log # <<>> /\ log[1].op = "load" /\ log[1].ok

LoadMiss == log # <<>> /\ log[1].op = "load" /\ ~log[1].ok

\* every Probe check so far failed, every derivation, store, purge and
\* session construction so far succeeded
OnlyProbeFails ==
    /\ \A i \in Idx("ping") : ~log[i].ok
    /\ \A i \in DOMAIN log :
         log[i].op \in {"derive_ret", "prompt", "store", "purge", "newsession"} => log[i].ok

Fatal == result.sess = NilSession /\ result.err # NoErr

Handle == result.sess # NilSession /\ result.err = NoErr

\* ------------------------------------------------------------------ C1
C1_Safe ==
    OnlyProbeFails =>
        /\ Count("ping") <= 2
        /\ Count("purge") <= 1
        /\ Count("recurse") <= 1
        /\ phase = "done" =>
              /\ Fatal
              /\ Count("ping") = 2
              /\ Count("purge") = 1
              /\ Count("recurse") = 1

\* C1: when every Probe check fails and nothing else does, whatever the
\* file held at the start, a SessionWithConfig call ends, and it ends with
\* a fatal error after exactly two Probe checks, exactly one purge and
\* exactly one re-entry of the wrapper; there is never a third Probe check.
C1_BoundedRetry == [](C1_Safe) /\ ((phase = "running") ~> (phase = "done"))

C1_Witness ==
    /\ phase = "done" /\ OnlyProbeFails /\ Fatal
    /\ Count("ping") = 2 /\ Count("purge") = 1 /\ LoadHit

\* ------------------------------------------------------------------ C2
\* C2 as stated: in one SessionWithConfig call the MFA prompt happens at
\* most once.
C2_AtMostOnePrompt == Count("prompt") <= 1

\* C2, amended: the MFA prompt happens at most once per invocation of
\* bastionAccountCreds and at most twice in one SessionWithConfig call; at
\* most once when the call started with a cache hit, and twice only when
\* the call started with a cache miss and the first Probe check failed.
C2_PromptBound ==
    /\ Count("prompt") <= Count("derive")
    /\ Count("prompt") <= 2
    /\ LoadHit => Count("prompt") <= 1
    /\ Count("prompt") = 2 => LoadMiss /\ Idx("ping") # {} /\ ~FirstPing.ok

C2_Witness == Count("prompt") = 2 /\ phase = "done" /\ Handle

\* ------------------------------------------------------------------ C3
\* C3: in one SessionWithConfig call bastionAccountCreds is invoked at most
\* twice, twice only when the first Probe check failed; when the first
\* Probe check succeeds it is invoked at most once.
C3_DeriveBound ==
    /\ Count("derive") <= 2
    /\ Count("derive") = 2 => Idx("ping") # {} /\ ~FirstPing.ok
    /\ (Idx("ping") # {} /\ FirstPing.ok) => Count("derive") <= 1

C3_Witness == Count("derive") = 2 /\ Idx("ping") # {} /\ ~FirstPing.ok /\ phase = "done"

\* ------------------------------------------------------------------ C4
\* the call found a credential in the file and that credential passed the
\* Probe check (or has not been checked yet)
HappyPath == LoadHit /\ (Idx("ping") # {} => FirstPing.ok)

\* C4: a SessionWithConfig call that finds a credential in the file which
\* passes the Probe check returns a handle without invoking
\* bastionAccountCreds (no MFA prompt), without a store or a purge, and
\* leaves the file as it was; so does every such call after it.
C4_HappyPathIdempotent ==
    HappyPath =>
        /\ Count("derive") = 0 /\ Count("prompt") = 0
        /\ Count("store") = 0 /\ Count("purge") = 0
        /\ file = file0
        /\ phase = "done" /\ Idx("ping") # {} => Handle /\ result.sess.creds.val = log[1].val

\* the second of two calls in a row that were served from the file
C4_Witness ==
    /\ phase = "done" /\ HappyPath /\ Handle
    /\ served # <<>> /\ served[Len(served)] # 0
    /\ nextKey = 2
    /\ file = FileOf(Marshal(Value(1)))

\* ------------------------------------------------------------------ C5
\* C5: when the first load of a call fails, because the file is absent or
\* because its bytes do not parse, the next thing the call does is invoke
\* bastionAccountCreds, and the first Probe check is preceded by exactly
\* one invocation of bastionAccountCreds, which has returned a credential.
C5_MissDerivesBeforeProbe ==
    LoadMiss =>
        /\ log[1].why \in {"notfound", "corrupt"}
        /\ Len(log) >= 2 => log[2].op = "derive"
        /\ Idx("ping") # {} =>
              LET p == MinOf(Idx("ping"))
              IN  /\ Cardinality({i \in Idx("derive") : i < p}) = 1
                  /\ \E i \in Idx("derive_ret") : i < p /\ log[i].ok

C5_Witness ==
    /\ LoadMiss /\ log[1].why = "corrupt"
    /\ Idx("ping") # {}
    /\ Count("derive") = 1

\* ------------------------------------------------------------------ C6
\* the credential the last successful derivation of the call returned
LastDerived == log[MaxOf({i \in Idx("derive_ret") : log[i].ok})].val

\* C6: when a call returns a handle after having derived a credential, the
\* file holds exactly one record, the one json.Marshal writes for the last
\* credential derived, and it parses back to that credential.
C6_FileHoldsLastDerived ==
    (phase = "done" /\ Handle /\ \E i \in Idx("derive_ret") : log[i].ok) =>
        /\ file.exists
        /\ file.data = Marshal(LastDerived)
        /\ Unmarshal(file.data).err = NoErr
        /\ Unmarshal(file.data).val = LastDerived
        /\ retrieveCredentials(file).creds.val = result.sess.creds.val

\* scenario B: the file held a credential, which the retry replaced
C6_Witness ==
    /\ phase = "done" /\ Handle /\ LoadHit
    /\ file0 = FileOf(Marshal(Value(1)))
    /\ file = FileOf(Marshal(Value(2)))
    /\ Count("purge") = 1

\* ------------------------------------------------------------------ C7
\* the failures that are not a failed Probe check
HardFailure(i) ==
    \/ log[i].op = "derive_ret" /\ ~log[i].ok
    \/ log[i].op = "newsession" /\ ~log[i].ok

\* C7: once bastionAccountCreds fails (a failed store inside it included)
\* or the session construction fails, the call does nothing more: no purge,
\* no Probe check, no further derivation, no load; and it returns an error.
C7_OnlyProbeFailureRetries ==
    \A i \in DOMAIN log :
        HardFailure(i) =>
            /\ i = Len(log)
            /\ \A fr \in {stack[j] : j \in DOMAIN stack} : fr.pc = "wait"
            /\ phase = "done" => Fatal

C7_Witness ==
    /\ phase = "done" /\ Fatal
    /\ HardFailure(Len(log))
    /\ \E i \in Idx("store") : ~log[i].ok

\* ------------------------------------------------------------------ C8
\* C8: a call ends either with a handle and no error or with an error and
\* no handle, and a handle is returned only when the last Probe check of
\* the call was made on that handle and succeeded.
C8_HandleIffProbed ==
    phase = "done" =>
        /\ (Handle /\ ~Fatal) \/ (Fatal /\ ~Handle)
        /\ Handle => /\ Idx("ping") # {}
                     /\ LastPing.ok
                     /\ LastPing.hid = result.sess.hid
                     /\ LastPing.val = result.sess.creds.val

\* a handle returned from the retry
C8_Witness == phase = "done" /\ Handle /\ Count("ping") = 2 /\ result.sess.hid = LastPing.hid

\* ------------------------------------------------------------------ C9
Range(e) == {e[i] : i \in DOMAIN e}

\* the message that names the stage of a failed step, and the causes the
\* step can fail with
StageMessage(op) ==
    CASE op = "derive_ret" -> "couldn't create bastion account credentials"
      [] op = "ping"       -> "failed to ping aws servers with created session"
      [] op = "purge"      -> "couldn't purge the main session"
      [] op = "newsession" -> "couldn't create session"
      [] OTHER             -> "none"

Causes(op) ==
    CASE op = "derive_ret" -> {"bastion session error", "AssumeRole failed",
                               "open: permission denied", "write: no space left on device"}
      [] op = "ping"       -> {"ping error"}
      [] op = "purge"      -> {"remove: no such file or directory", "remove: permission denied"}
      [] op = "newsession" -> {"session error"}
      [] OTHER             -> {}

\* C9: the error a call returns names the stage of the step that failed
\* and ends in that step's own error, on every path, the retry included.
C9_ErrorNamesStageAndCause ==
    (phase = "done" /\ Fatal) =>
        LET op == log[Len(log)].op
        IN  /\ StageMessage(op) \in Range(result.err)
            /\ result.err[Len(result.err)] \in Causes(op)

\* ----------------------------------------------------------------- C10
\* C10: a Probe check of a credential bastionAccountCreds returned comes
\* after a successful store of that credential, which the file holds when
\* the check is made; a derivation whose store fails returns an error and
\* its credential is never checked.
C10_StoredBeforeHandedBack ==
    /\ \A i \in Idx("ping") :
          log[i].src = "sts" =>
              \E j \in Idx("store") : j < i /\ log[j].ok /\ log[j].val = log[i].val
    /\ \A j \in Idx("store") :
          ~log[j].ok =>
              /\ log[j + 1].op = "derive_ret" /\ ~log[j + 1].ok
              /\ \A i \in Idx("ping") : log[i].val # log[j].val
    /\ \A j \in DOMAIN stack :
          (stack[j].pc = "ping" /\ stack[j].creds.src = "sts") =>
              retrieveCredentials(file).creds.val = stack[j].creds.val

C10_Witness ==
    /\ Idx("ping") # {} /\ LastPing.src = "sts"
    /\ \E j \in Idx("store") : ~log[j].ok

\* ------------------------------------------------ the cache on its own
\* storeCredentials, retrieveCredentials and purge applied one after the
\* other, in any order, to every starting file

\* the credential values stored: full ones, and one without session token
CacheValues == {Value(k) : k \in 1..MaxKey} \cup {[Value(1) EXCEPT !.SessionToken = 0]}

CacheStore ==
    /\ Len(log) < MaxOps
    /\ \E val \in CacheValues, how \in {"ok", "openfail", "writefail"} :
         LET st == storeCredentials(file, val, TRUE, how)
         IN  /\ file' = st.file
             /\ log' = Append(log, Ev("store", st.err = NoErr, 0, [src |-> "sts", val |-> val], how))
    /\ UNCHANGED <<stack, ret, result, phase, nextKey, nextHid, calls, file0, served, prevLog, writer>>

CacheLoad ==
    /\ Len(log) < MaxOps
    /\ LET r == retrieveCredentials(file)
       IN  log' = Append(log, Ev("load", r.err = NoErr, 0, r.creds,
                                IF r.err = NoErr THEN "" ELSE MissKind(file)))
    /\ UNCHANGED <<file, stack, ret, result, phase, nextKey, nextHid, calls, file0, served, prevLog, writer>>

CachePurge ==
    /\ Len(log) < MaxOps
    /\ \E allowed \in BOOLEAN :
         LET p == purge(file, allowed)
         IN  /\ file' = p.file
             /\ log' = Append(log, Ev("purge", p.err = NoErr, 0, NoCreds,
                                      IF p.err = NoErr THEN "" ELSE p.err[2]))
    /\ UNCHANGED <<stack, ret, result, phase, nextKey, nextHid, calls, file0, served, prevLog, writer>>

CacheNext ==
    \/ CacheStore
    \/ CacheLoad
    \/ CachePurge

CacheSpec == Init /\ [][CacheNext]_vars

\* ----------------------------------------------------------------- C11
\* a purge made right after a purge that succeeded
SecondPurge(i) ==
    /\ i > 1
    /\ log[i].op = "purge"
    /\ log[i - 1].op = "purge" /\ log[i - 1].ok

\* C11 as stated: purge is idempotent, a purge right after a successful
\* purge returns nil as well.
C11_PurgeIdempotent == \A i \in DOMAIN log : SecondPurge(i) => log[i].ok

\* C11, amended: purge is not idempotent. A purge of an absent file returns
\* the error of os.Remove, so a purge right after a successful purge fails;
\* the file is absent after both.
C11_SecondPurgeFails ==
    /\ \A i \in DOMAIN log :
          SecondPurge(i) => ~log[i].ok /\ log[i].why = "remove: no such file or directory"
    /\ (log # <<>> /\ SecondPurge(Len(log))) => ~file.exists
    /\ (log # <<>> /\ log[Len(log)].op = "purge" /\ log[Len(log)].ok) => ~file.exists

C11_Witness == log # <<>> /\ SecondPurge(Len(log)) /\ ~file.exists

\* ----------------------------------------------------------------- C12
\* a credential record has an access key and a secret key
ValidRecord(val) == val.AccessKeyID # 0 /\ val.SecretAccessKey # 0

EmptyObject == FileOf(<<Tok("lbrace", 0), Tok("rbrace", 0)>>)

\* C12 as stated: a load returns a credential only from a file that holds
\* a valid credential record.
C12_LoadRejectsInvalidRecord == \A i \in Idx("load") : log[i].ok => ValidRecord(log[i].val)

\* C12, amended: a load returns a credential whenever the file parses as
\* one JSON object, whatever fields it carries; only an absent file or
\* bytes that do not parse make it fail. A record without keys, such as
\* the empty object, is loaded as a credential with empty fields and is
\* the candidate: the session is built from it and the Probe checks it.
C12_LoadAcceptsAnyObject ==
    /\ log # <<>> =>
          (log[1].ok <=> (file0.exists /\ Unmarshal(file0.data).err = NoErr))
    /\ LoadHit =>
          /\ log[1].val = Unmarshal(file0.data).val
          /\ Len(log) >= 2 => log[2].op = "newsession" /\ log[2].val = log[1].val
    /\ (log # <<>> /\ file0 = EmptyObject) =>
          /\ LoadHit /\ log[1].val = EmptyValue
          /\ Idx("ping") # {} => FirstPing.src = "static" /\ FirstPing.val = EmptyValue

C12_Witness ==
    /\ file0 = EmptyObject /\ LoadHit /\ ~ValidRecord(log[1].val)
    /\ Idx("ping") # {} /\ FirstPing.val = EmptyValue

\* ------------------------------------------- a store and a concurrent load
\* ioutil.WriteFile is an open with O_TRUNC followed by a write: the steps
\* of one storeCredentials, with retrieveCredentials of another process
\* reading the file between any two of them.

\* the open of WriteFile without O_TRUNC
OpenKeep(f) == FileOf(f.data)

\* os.OpenFile(path, O_WRONLY|O_CREATE|O_TRUNC, perm): the file is there
\* and empty
OpenTrunc(f) == FileOf(<<>>)

\* the first n tokens of b written at offset 0
PWrite(f, b, n) == FileOf(SubSeq(b, 1, n) \o SubSeq(f.data, n + 1, Len(f.data)))

\* what a load of file f gives, and the bytes it read
Observe(f) ==
    LET r == retrieveCredentials(f)
    IN  [op |-> "load", ok |-> r.err = NoErr, hid |-> 0, src |-> r.creds.src,
         val |-> r.creds.val, why |-> IF r.err = NoErr THEN "" ELSE MissKind(f),
         data |-> f.data]

\* lines 180-187: creds.Get() and json.Marshal have returned
RaceBegin ==
    /\ writer.pc = "idle"
    /\ \E val \in CacheValues : writer' = [pc |-> "open", val |-> val]
    /\ UNCHANGED <<file, stack, ret, result, phase, log, nextKey, nextHid, calls, file0,
                   served, prevLog>>

\* line 190, the open inside WriteFile
RaceOpen ==
    /\ writer.pc = "open"
    /\ \E ok \in BOOLEAN :
         IF ok
         THEN /\ file' = OpenTrunc(file)
              /\ writer' = [writer EXCEPT !.pc = "write"]
         ELSE /\ file' = file
              /\ writer' = [writer EXCEPT !.pc = "done"]
    /\ UNCHANGED <<stack, ret, result, phase, log, nextKey, nextHid, calls, file0,
                   served, prevLog>>

\* line 190, the write inside WriteFile: all the bytes, or a part of them
\* with the rest still to come
RaceWrite ==
    /\ writer.pc = "write"
    /\ LET b == Marshal(writer.val)
       IN  \E n \in 1..Len(b) :
             /\ file' = PWrite(file, b, n)
             /\ writer' = [writer EXCEPT !.pc = IF n = Len(b) THEN "done" ELSE "rest"]
    /\ UNCHANGED <<stack, ret, result, phase, log, nextKey, nextHid, calls, file0,
                   served, prevLog>>

\* line 190, the rest of the write
RaceWriteRest ==
    /\ writer.pc = "rest"
    /\ file' = PWrite(file, Marshal(writer.val), Len(Marshal(writer.val)))
    /\ writer' = [writer EXCEPT !.pc = "done"]
    /\ UNCHANGED <<stack, ret, result, phase, log, nextKey, nextHid, calls, file0,
                   served, prevLog>>

\* retrieveCredentials of the other process (lines 196-209)
RaceLoad ==
    /\ Len(log) < MaxReads
    /\ log' = Append(log, Observe(file))
    /\ UNCHANGED <<file, stack, ret, result, phase, nextKey, nextHid, calls, file0,
                   served, prevLog, writer>>

RaceNext ==
    \/ RaceBegin
    \/ RaceOpen
    \/ RaceWrite
    \/ RaceWriteRest
    \/ RaceLoad

RaceSpec == Init /\ [][RaceNext]_vars

\* ----------------------------------------------------------------- C13
\* the file once the store is complete
NewFile == FileOf(Marshal(writer.val))

\* b is a beginning of c, and not all of it
StrictPrefix(b, c) == Len(b) < Len(c) /\ b = SubSeq(c, 1, Len(b))

\* C13 as stated: a load concurrent with a store sees the old file, whole
\* or absent, or the new record, whole.
C13_StoreAtomic ==
    \A i \in Idx("load") :
        \/ log[i] = Observe(file0)
        \/ writer.pc # "idle" /\ log[i] = Observe(NewFile)

\* C13, amended: a load concurrent with a store sees the old file, the
\* new record, or the file empty or holding only a beginning of the new
\* record; in the last two cases the load fails to parse it. A load that
\* returns a credential returns the old one or the new one.
C13_LoadSeesOldNewOrFails ==
    \A i \in Idx("load") :
        /\ \/ log[i] = Observe(file0)
           \/ writer.pc # "idle" /\ log[i] = Observe(NewFile)
           \/ /\ writer.pc \in {"write", "rest", "done"}
              /\ StrictPrefix(log[i].data, Marshal(writer.val))
              /\ ~log[i].ok /\ log[i].why = "corrupt"
        /\ log[i].ok =>
              \/ log[i].val = Observe(file0).val /\ Observe(file0).ok
              \/ writer.pc # "idle" /\ log[i].val = writer.val

\* a load that found the file empty although it held a credential before
\* the store and holds one after it
C13_Witness ==
    /\ file0 = FileOf(Marshal(Value(1)))
    /\ writer.pc = "done" /\ file = NewFile
    /\ \E i \in Idx("load") : log[i].data = <<>> /\ ~log[i].ok

\* ----------------------------------------------------------------- C14
\* a load made right after a store that succeeded
LoadAfterStore(i) ==
    /\ i > 1
    /\ log[i].op = "load"
    /\ log[i - 1].op = "store" /\ log[i - 1].ok

\* C14: a load made right after a successful store of a credential returns
\* a credential with the same access key, secret key and session token.
C14_RoundTrip ==
    \A i \in DOMAIN log :
        LoadAfterStore(i) =>
            /\ log[i].ok
            /\ log[i].val.AccessKeyID = log[i - 1].val.AccessKeyID
            /\ log[i].val.SecretAccessKey = log[i - 1].val.SecretAccessKey
            /\ log[i].val.SessionToken = log[i - 1].val.SessionToken

\* a round trip that replaced another credential
C14_Witness ==
    /\ log # <<>> /\ LoadAfterStore(Len(log))
    /\ log[Len(log)].val = Value(2)
    /\ file0 = FileOf(Marshal(Value(1)))

\* ----------------------------------------------------------------- C15
\* C15: after a failed first Probe check and a successful purge the rerun
\* finds no file, invokes bastionAccountCreds, and the second Probe check
\* is made on the credential that invocation returned, never on one read
\* from the file.
C15_RetryDerivesAfresh ==
    /\ \A i \in Idx("recurse") :
          /\ log[i - 1].op = "purge" /\ log[i - 1].ok
          /\ Len(log) > i => log[i + 1].op = "load" /\ ~log[i + 1].ok
                              /\ log[i + 1].why = "notfound"
          /\ Len(log) > i + 1 => log[i + 2].op = "derive"
    /\ Count("ping") = 2 =>
          /\ LastPing.src = "sts"
          /\ \E j \in Idx("derive_ret") :
                /\ log[j].ok /\ log[j].val = LastPing.val
                /\ MaxOf(Idx("purge")) < j /\ j < MaxOf(Idx("ping"))

\* the file held a credential, and the second check was made on a new one
C15_Witness ==
    /\ Count("ping") = 2 /\ LoadHit /\ ValidRecord(log[1].val)
    /\ LastPing.src = "sts" /\ LastPing.val # log[1].val

\* ----------------------------------------------------------------- C16
FailedPurge(i) == log[i].op = "purge" /\ ~log[i].ok

\* a step that is a purge which fails leaves the file as it is and ends
\* the call with an error
C16_Step ==
    (log' # <<>> /\ log' # log /\ log'[Len(log')].op = "purge" /\ ~log'[Len(log')].ok) =>
        /\ file' = file
        /\ stack' = <<>> /\ phase' = "done"
        /\ result'.sess = NilSession /\ result'.err # NoErr

\* C16: a purge that fails after the first failed Probe check ends the
\* call with a fatal error at once: no derivation, no store and no second
\* Probe check follow, and the file is as it was before the purge.
C16_PurgeFailureIsFatal ==
    /\ [](\A i \in DOMAIN log :
            FailedPurge(i) => /\ i = Len(log)
                              /\ Count("ping") = 1 /\ Count("recurse") = 0
                              /\ phase = "done" /\ Fatal)
    /\ [][C16_Step]_vars

C16_Witness ==
    /\ phase = "done" /\ log # <<>> /\ FailedPurge(Len(log))
    /\ LoadHit /\ file = file0 /\ file0 = FileOf(Marshal(Value(1)))

\* ----------------------------------------------------------------- C17
\* C17: the file exists whenever the wrapper is about to purge it, so no
\* purge of a call fails because the file is absent.
C17_FileExistsAtPurge ==
    /\ \A j \in DOMAIN stack : stack[j].pc = "purge" => file.exists
    /\ \A i \in Idx("purge") : log[i].why # "remove: no such file or directory"

\* a purge of the file a derivation wrote where there was none
C17_Witness ==
    /\ file0 = Absent /\ LoadMiss
    /\ Idx("purge") # {} /\ log[MaxOf(Idx("purge"))].ok

\* ----------------------------------------------------------------- C18
\* the pings of the previous call
PrevPings == {i \in DOMAIN prevLog : prevLog[i].op = "ping"}

\* the previous call ended because its second Probe check failed
PrevRejected == Cardinality(PrevPings) = 2 /\ ~prevLog[MaxOf(PrevPings)].ok

\* C18: when a call ends because the second Probe check failed, the file
\* has not been purged again and holds the credential just derived and
\* rejected, and the next call starts with a load of that credential.
C18_RejectedCredentialStaysCached ==
    /\ (phase = "done" /\ Count("ping") = 2 /\ ~LastPing.ok) =>
          /\ Fatal
          /\ Count("purge") = 1
          /\ LastPing.src = "sts"
          /\ file = FileOf(Marshal(LastPing.val))
          /\ retrieveCredentials(file).err = NoErr
          /\ retrieveCredentials(file).creds.val = LastPing.val
    /\ (PrevRejected /\ log # <<>>) =>
          /\ log[1].op = "load" /\ log[1].ok
          /\ log[1].val = prevLog[MaxOf(PrevPings)].val

C18_Witness == PrevRejected /\ LoadHit /\ log[1].val = prevLog[MaxOf(PrevPings)].val

====
